---- MODULE Spec2Model ----
(***************************************************************************)
(* IDTP frame codec (src/src/rust/idtp/src): header, payload registry,     *)
(* frame builder, pack_with / validate_with / try_from.                    *)
(*                                                                         *)
(* Bytes are integers 0..255, buffers are sequences of bytes (index 1 of   *)
(* a sequence is offset 0 of the Rust slice).  A result is the name of the *)
(* IdtpError variant, or "Ok".                                             *)
(***************************************************************************)
EXTENDS Integers, Sequences, FiniteSets, TLC

\* ------------------------------------------------------------------ bounds
\* Number of builder mutations (set_header / set_payload*) before a pack.
MaxSets == 2
\* Payload contents are drawn from fill patterns 1..MaxFill.
MaxFill == 1
\* HMAC keys are 1..MaxKey (and None).
MaxKey == 2
\* The transport flips bit 0 or bit MaxBit of a byte.
MaxBit == 6
\* Bytes of slack the caller's buffer may have beyond size().
MaxSlack == 1

\* ------------------------------------------------------- program constants
\* 0x5054_4449; a u32 is carried as its two 16-bit halves.
IDTP_PREAMBLE == [hi |-> 20564, lo |-> 17481]
IDTP_VERSION == 33
IDTP_HEADER_SIZE == 20
IDTP_FRAME_MAX_SIZE == 1024
IDTP_FRAME_MIN_SIZE == IDTP_HEADER_SIZE
IDTP_PAYLOAD_MAX_SIZE == 972
U8 == 256
U16 == 65536

Ok == "Ok"
BufferUnderflow == "BufferUnderflow"
BufferOverflow == "BufferOverflow"
InvalidCrc == "InvalidCrc"
InvalidHMac == "InvalidHMac"
InvalidHMacKey == "InvalidHMacKey"
ParseError == "ParseError"
IdtpError == {BufferUnderflow, BufferOverflow, InvalidCrc, InvalidHMac,
              InvalidHMacKey, ParseError}

\* Option<&[u8]>: the HMAC key handed to pack / validate.
NoKey == [some |-> FALSE, bytes |-> <<>>]
SomeKey(k) == [some |-> TRUE, bytes |-> <<k, k + 16, k + 32, k + 48>>]

\* ------------------------------------------------------------ byte helpers
u32(hi, lo) == [hi |-> hi, lo |-> lo]

\* u16::to_le_bytes / u32::to_le_bytes
u16_to_le_bytes(v) == <<v % U8, v \div U8>>
u32_to_le_bytes(v) == u16_to_le_bytes(v.lo) \o u16_to_le_bytes(v.hi)

\* u16::from_le_bytes / u32::from_le_bytes
u16_from_le_bytes(b) == b[1] + U8 * b[2]
u32_from_le_bytes(b) ==
    u32(u16_from_le_bytes(SubSeq(b, 3, 4)), u16_from_le_bytes(SubSeq(b, 1, 2)))

\* slice.get(..n): the first n bytes.
Prefix(b, n) == SubSeq(b, 1, n)

\* slice.get_mut(range).copy_from_slice(src): src written at offset off.
copy_from_slice(b, off, src) ==
    SubSeq(b, 1, off) \o src \o SubSeq(b, off + Len(src) + 1, Len(b))

\* ------------------------------------------------------------------ header
IdtpMode == {"Lite", "Safety", "Secure", "Unknown"}

\* impl From<u8> for IdtpMode
IdtpMode_from(byte) ==
    CASE byte = 0 -> "Lite"
      [] byte = 1 -> "Safety"
      [] byte = 2 -> "Secure"
      [] OTHER -> "Unknown"

\* #[derive(Default)] struct IdtpHeader: every field is an integer, so zero.
IdtpHeader_default ==
    [preamble |-> u32(0, 0), timestamp |-> u32(0, 0), sequence |-> u32(0, 0),
     device_id |-> 0,
     payload_size |-> 0, version |-> 0, mode |-> 0, payload_type |-> 0,
     crc |-> 0]

\* IdtpHeader::new
IdtpHeader_new ==
    [IdtpHeader_default EXCEPT !.preamble = IDTP_PREAMBLE,
                               !.version = IDTP_VERSION]

\* IntoBytes::as_bytes of the packed repr(C) header on a little-endian host.
as_bytes(h) ==
    u32_to_le_bytes(h.preamble) \o u32_to_le_bytes(h.timestamp)
    \o u32_to_le_bytes(h.sequence) \o u16_to_le_bytes(h.device_id)
    \o u16_to_le_bytes(h.payload_size)
    \o <<h.version, h.mode, h.payload_type, h.crc>>

\* FromBytes::read_from_prefix for IdtpHeader (the caller checked the length).
read_from_prefix(b) ==
    [preamble |-> u32_from_le_bytes(SubSeq(b, 1, 4)),
     timestamp |-> u32_from_le_bytes(SubSeq(b, 5, 8)),
     sequence |-> u32_from_le_bytes(SubSeq(b, 9, 12)),
     device_id |-> u16_from_le_bytes(SubSeq(b, 13, 14)),
     payload_size |-> u16_from_le_bytes(SubSeq(b, 15, 16)),
     version |-> b[17], mode |-> b[18], payload_type |-> b[19],
     crc |-> b[20]]

\* ------------------------------------------------------ integrity primitives
\* Sum of w(i) * data[i] over lo..hi (halving, so the depth stays small).
RECURSIVE WeightedSum(_, _, _, _)
WeightedSum(data, lo, hi, weighted) ==
    IF lo > hi THEN 0
    ELSE IF lo = hi THEN (IF weighted THEN lo * data[lo] ELSE data[lo])
    ELSE LET mid == (lo + hi) \div 2
         IN  WeightedSum(data, lo, mid, weighted)
             + WeightedSum(data, mid + 1, hi, weighted)

\* crypto::sw_crc8.  The CRC-8/AUTOSAR routine of the crc crate is stood for
\* by an 8-bit checksum: a deterministic function of the bytes that changes
\* whenever a single bit of them changes.
sw_crc8(data) ==
    [res |-> Ok, val |-> (255 + WeightedSum(data, 1, Len(data), FALSE)) % U8]

\* crypto::sw_crc32.  The CRC-32/AUTOSAR routine of the crc crate is stood for
\* by a 32-bit checksum with the same property (low half: sum of the bytes,
\* high half: position-weighted sum).
sw_crc32(data) ==
    [res |-> Ok,
     val |-> u32((4660 + WeightedSum(data, 1, Len(data), TRUE)) % U16,
                 (U16 - 1 + WeightedSum(data, 1, Len(data), FALSE)) % U16)]

\* Hmac::<Sha256>::new_from_slice accepts a key of any length.
hmac_new_from_slice(k) == [res |-> Ok, key |-> k]

\* sw_hmac_closure that reports a missing key as InvalidHMac.
sw_hmac_closure_wrong_error(key, data) ==
    IF ~key.some THEN [res |-> InvalidHMac, val |-> <<>>]
    ELSE LET d == WeightedSum(data, 1, Len(data), FALSE)
             k == WeightedSum(key.bytes, 1, Len(key.bytes), TRUE)
         IN  [res |-> Ok, val |-> [i \in 1..32 |-> (d + 31 * k + 7 * i) % U8]]

\* crypto::sw_hmac_closure(key) applied to data.  HMAC-SHA256 of the hmac and
\* sha2 crates is stood for by a 32-byte tag computed from key and data that
\* changes with any single-bit change of the data and with the key.
sw_hmac_closure(key, data) ==
    IF ~key.some THEN [res |-> InvalidHMacKey, val |-> <<>>]
    ELSE LET mac == hmac_new_from_slice(key.bytes)
         IN  IF mac.res # Ok THEN [res |-> InvalidHMac, val |-> <<>>]
             ELSE LET d == WeightedSum(data, 1, Len(data), FALSE)
                      k == WeightedSum(mac.key, 1, Len(mac.key), TRUE)
                  IN  [res |-> Ok,
                       val |-> [i \in 1..32 |-> (d + 31 * k + 7 * i) % U8]]

\* The callables handed to pack_with / validate_with (C8, C32, H: FnOnce).
\* kind "sw" is the software backend, "const" a closure returning a fixed
\* value (a stubbed accelerator), "fail" a closure returning an error.
SwCrc == [kind |-> "sw", key |-> NoKey, val |-> 0, err |-> Ok]
SwHmac(key) == [kind |-> "sw", key |-> key, val |-> 0, err |-> Ok]
ConstPrim(v) == [kind |-> "const", key |-> NoKey, val |-> v, err |-> Ok]
FailPrim(e) == [kind |-> "fail", key |-> NoKey, val |-> 0, err |-> e]

calc_crc8(p, data) ==
    CASE p.kind = "sw" -> sw_crc8(data)
      [] p.kind = "const" -> [res |-> Ok, val |-> p.val]
      [] OTHER -> [res |-> p.err, val |-> 0]

calc_crc32(p, data) ==
    CASE p.kind = "sw" -> sw_crc32(data)
      [] p.kind = "const" -> [res |-> Ok, val |-> p.val]
      [] OTHER -> [res |-> p.err, val |-> u32(0, 0)]

calc_hmac(p, data) ==
    CASE p.kind = "sw" -> sw_hmac_closure(p.key, data)
      [] p.kind = "const" -> [res |-> Ok, val |-> [i \in 1..32 |-> p.val]]
      [] OTHER -> [res |-> p.err, val |-> <<>>]

\* -------------------------------------------------------- payload registry
\* The payload kinds: TYPE_ID, number of fields and width of a field in bytes
\* (f32 fields are carried as their 32-bit patterns; HugePayload is the
\* [u8; 1000] record of the integration tests).
PayloadKinds ==
    [TestPayload |-> [TYPE_ID |-> 127, fields |-> 1, width |-> 4],
     Imu3Acc |-> [TYPE_ID |-> 0, fields |-> 3, width |-> 4],
     Imu6 |-> [TYPE_ID |-> 3, fields |-> 6, width |-> 4],
     ImuQuat |-> [TYPE_ID |-> 6, fields |-> 4, width |-> 4],
     HugePayload |-> [TYPE_ID |-> 128, fields |-> 1000, width |-> 1]]

\* IdtpPayload::payload_type
payload_type(T) == PayloadKinds[T].TYPE_ID

\* size_of::<T>() of a packed record.
size_of(T) == PayloadKinds[T].fields * PayloadKinds[T].width

\* The bytes of one field: an f32 (its 32-bit pattern) or a u8.
field_bytes(w, v) == IF w = 4 THEN u32_to_le_bytes(v) ELSE <<v>>
field_from_bytes(w, b) == IF w = 4 THEN u32_from_le_bytes(b) ELSE b[1]

\* IdtpPayload::to_bytes: the fields in declaration order, little-endian.
to_bytes(T, p) ==
    LET w == PayloadKinds[T].width
    IN  [i \in 1..size_of(T) |->
            field_bytes(w, p[((i - 1) \div w) + 1])[((i - 1) % w) + 1]]

\* IdtpPayload::from_bytes
from_bytes(T, data) ==
    IF Len(data) < size_of(T) THEN [res |-> BufferUnderflow, val |-> <<>>]
    ELSE LET w == PayloadKinds[T].width
         IN  [res |-> Ok,
              val |-> [f \in 1..PayloadKinds[T].fields |->
                          field_from_bytes(
                              w, SubSeq(data, (f - 1) * w + 1, f * w))]]

\* ------------------------------------------------------------------- frame
\* impl Default for IdtpFrame / IdtpFrame::new
IdtpFrame_new ==
    [header |-> IdtpHeader_default,
     payload |-> [i \in 1..IDTP_PAYLOAD_MAX_SIZE |-> 0]]

\* IdtpFrame::set_header
set_header(f, header) == [f EXCEPT !.header = header]

\* set_payload_raw that never lowers header.payload_size.
set_payload_raw_never_shrinks(f, bytes, ptype) ==
    LET sz == Len(bytes)
        keep == IF f.header.payload_size > sz THEN f.header.payload_size
                ELSE sz % U16
    IN  IF sz > IDTP_FRAME_MAX_SIZE THEN [res |-> BufferOverflow, frame |-> f]
        ELSE IF sz > Len(f.payload) THEN [res |-> BufferOverflow, frame |-> f]
        ELSE [res |-> Ok,
              frame |-> [header |-> [f.header EXCEPT !.payload_type = ptype,
                                                     !.payload_size = keep],
                         payload |-> copy_from_slice(f.payload, 0, bytes)]]

\* set_payload_raw that relies on the IDTP_FRAME_MAX_SIZE test alone and
\* records the size before the copy is known to fit.
set_payload_raw_unchecked(f, bytes, ptype) ==
    LET sz == Len(bytes)
    IN  IF sz > IDTP_FRAME_MAX_SIZE THEN [res |-> BufferOverflow, frame |-> f]
        ELSE IF sz > Len(f.payload)
        THEN [res |-> BufferOverflow,
              frame |-> [f EXCEPT !.header.payload_size = sz % U16,
                                  !.header.payload_type = ptype]]
        ELSE [res |-> Ok,
              frame |-> [header |-> [f.header EXCEPT !.payload_type = ptype,
                                                     !.payload_size = sz % U16],
                         payload |-> copy_from_slice(f.payload, 0, bytes)]]

\* IdtpFrame::set_payload_raw
set_payload_raw(f, bytes, ptype) ==
    LET sz == Len(bytes)
    IN  IF sz > IDTP_FRAME_MAX_SIZE THEN [res |-> BufferOverflow, frame |-> f]
        ELSE IF sz > Len(f.payload) THEN [res |-> BufferOverflow, frame |-> f]
        ELSE [res |-> Ok,
              frame |-> [header |-> [f.header EXCEPT !.payload_type = ptype,
                                                     !.payload_size = sz % U16],
                         payload |-> copy_from_slice(f.payload, 0, bytes)]]

\* set_payload that leaves header.payload_type alone.
set_payload_keeps_type(f, T, p) ==
    LET bytes == to_bytes(T, p)
        sz == Len(bytes)
    IN  IF sz > IDTP_PAYLOAD_MAX_SIZE THEN [res |-> BufferOverflow, frame |-> f]
        ELSE IF sz > Len(f.payload) THEN [res |-> BufferOverflow, frame |-> f]
        ELSE [res |-> Ok,
              frame |-> [header |-> [f.header EXCEPT !.payload_size = sz % U16],
                         payload |-> copy_from_slice(f.payload, 0, bytes)]]

\* IdtpFrame::set_payload::<T>
set_payload(f, T, p) ==
    LET bytes == to_bytes(T, p)
        sz == Len(bytes)
    IN  IF sz > IDTP_PAYLOAD_MAX_SIZE THEN [res |-> BufferOverflow, frame |-> f]
        ELSE IF sz > Len(f.payload) THEN [res |-> BufferOverflow, frame |-> f]
        ELSE [res |-> Ok,
              frame |-> [header |-> [f.header EXCEPT
                                        !.payload_type = payload_type(T),
                                        !.payload_size = sz % U16],
                         payload |-> copy_from_slice(f.payload, 0, bytes)]]

\* IdtpFrame::payload_size
payload_size(f) == f.header.payload_size

\* IdtpFrame::payload_raw
payload_raw(f) ==
    IF payload_size(f) > Len(f.payload) THEN [res |-> ParseError, val |-> <<>>]
    ELSE [res |-> Ok, val |-> Prefix(f.payload, payload_size(f))]

\* payload::<T> that refuses a stored payload_type other than T::TYPE_ID.
payload_checks_type(f, T) ==
    IF payload_size(f) > Len(f.payload) THEN [res |-> ParseError, val |-> <<>>]
    ELSE IF f.header.payload_type # payload_type(T)
    THEN [res |-> ParseError, val |-> <<>>]
    ELSE LET r == from_bytes(T, Prefix(f.payload, payload_size(f)))
         IN  IF r.res # Ok THEN [res |-> ParseError, val |-> <<>>] ELSE r

\* IdtpFrame::payload::<T>
payload(f, T) ==
    IF payload_size(f) > Len(f.payload) THEN [res |-> ParseError, val |-> <<>>]
    ELSE LET r == from_bytes(T, Prefix(f.payload, payload_size(f)))
         IN  IF r.res # Ok THEN [res |-> ParseError, val |-> <<>>] ELSE r

\* The trailer match with a 64-byte tag for Secure.
mode_trailer_long_tag(mode) ==
    CASE mode = "Safety" -> 4
      [] mode = "Secure" -> 64
      [] OTHER -> 0

\* The trailer match with a 16-byte (truncated) tag for Secure.
mode_trailer_short_tag(mode) ==
    CASE mode = "Safety" -> 4
      [] mode = "Secure" -> 16
      [] OTHER -> 0

\* The trailer length of a mode (the match in trailer_size / validate_with).
mode_trailer(mode) ==
    CASE mode = "Safety" -> 4
      [] mode = "Secure" -> 32
      [] OTHER -> 0

\* IdtpFrame::trailer_size
trailer_size(f) == mode_trailer(IdtpMode_from(f.header.mode))

\* size() that forgets the trailer.
size_no_trailer(f) == IDTP_FRAME_MIN_SIZE + payload_size(f)

\* IdtpFrame::size
size(f) == IDTP_FRAME_MIN_SIZE + payload_size(f) + trailer_size(f)

\* The trailer match of pack_with with a Secure arm that also runs the
\* CRC-32 primitive before the HMAC primitive.
pack_trailer_crc_in_secure(mode, b3, data_size, frame_size, c32, h) ==
    LET data == Prefix(b3, data_size)
        crc32 == calc_crc32(c32, data)
        hmac == calc_hmac(h, data)
    IN  CASE mode = "Safety" ->
               IF crc32.res # Ok
               THEN [res |-> crc32.res, n |-> 0, out |-> b3,
                     calls |-> <<"crc8", "crc32">>]
               ELSE [res |-> Ok, n |-> frame_size,
                     out |-> copy_from_slice(b3, data_size,
                                             u32_to_le_bytes(crc32.val)),
                     calls |-> <<"crc8", "crc32">>]
          [] mode = "Secure" ->
               IF crc32.res # Ok
               THEN [res |-> crc32.res, n |-> 0, out |-> b3,
                     calls |-> <<"crc8", "crc32">>]
               ELSE IF hmac.res # Ok
               THEN [res |-> hmac.res, n |-> 0, out |-> b3,
                     calls |-> <<"crc8", "crc32", "hmac">>]
               ELSE [res |-> Ok, n |-> frame_size,
                     out |-> copy_from_slice(b3, data_size, hmac.val),
                     calls |-> <<"crc8", "crc32", "hmac">>]
          [] OTHER ->
               [res |-> Ok, n |-> frame_size, out |-> b3, calls |-> <<"crc8">>]

\* IdtpFrame::pack_with, the trailer match: b3 holds header and payload.
pack_trailer(mode, b3, data_size, frame_size, c32, h) ==
    LET data == Prefix(b3, data_size)
        crc32 == calc_crc32(c32, data)
        hmac == calc_hmac(h, data)
    IN  CASE mode = "Safety" ->
               IF crc32.res # Ok
               THEN [res |-> crc32.res, n |-> 0, out |-> b3,
                     calls |-> <<"crc8", "crc32">>]
               ELSE [res |-> Ok, n |-> frame_size,
                     out |-> copy_from_slice(b3, data_size,
                                             u32_to_le_bytes(crc32.val)),
                     calls |-> <<"crc8", "crc32">>]
          [] mode = "Secure" ->
               IF hmac.res # Ok
               THEN [res |-> hmac.res, n |-> 0, out |-> b3,
                     calls |-> <<"crc8", "hmac">>]
               ELSE [res |-> Ok, n |-> frame_size,
                     out |-> copy_from_slice(b3, data_size, hmac.val),
                     calls |-> <<"crc8", "hmac">>]
          [] OTHER ->
               [res |-> Ok, n |-> frame_size, out |-> b3, calls |-> <<"crc8">>]

\* pack_with that takes the CRC-8 of the buffer before the header is written.
pack_with_stale_crc(f, buffer, c8, c32, h) ==
    LET b1 == copy_from_slice(buffer, 0, as_bytes(f.header))
        crc8 == calc_crc8(c8, Prefix(buffer, 19))
        b2 == copy_from_slice(b1, 19, <<crc8.val>>)
        pl == payload_raw(f)
        b3 == copy_from_slice(b2, IDTP_HEADER_SIZE, pl.val)
        data_size == IDTP_HEADER_SIZE + payload_size(f)
    IN  IF Len(buffer) < size(f)
        THEN [res |-> BufferUnderflow, n |-> 0, out |-> buffer, calls |-> <<>>]
        ELSE IF crc8.res # Ok
        THEN [res |-> crc8.res, n |-> 0, out |-> b1, calls |-> <<"crc8">>]
        ELSE IF pl.res # Ok
        THEN [res |-> pl.res, n |-> 0, out |-> b2, calls |-> <<"crc8">>]
        ELSE pack_trailer(IdtpMode_from(f.header.mode), b3, data_size,
                          data_size + trailer_size(f), c32, h)

\* pack_with that leaves the header's stored crc field at offset 19.
pack_with_stored_crc(f, buffer, c8, c32, h) ==
    LET b1 == copy_from_slice(buffer, 0, as_bytes(f.header))
        crc8 == calc_crc8(c8, Prefix(b1, 19))
        pl == payload_raw(f)
        b3 == copy_from_slice(b1, IDTP_HEADER_SIZE, pl.val)
        data_size == IDTP_HEADER_SIZE + payload_size(f)
    IN  IF Len(buffer) < size(f)
        THEN [res |-> BufferUnderflow, n |-> 0, out |-> buffer, calls |-> <<>>]
        ELSE IF crc8.res # Ok
        THEN [res |-> crc8.res, n |-> 0, out |-> b1, calls |-> <<"crc8">>]
        ELSE IF pl.res # Ok
        THEN [res |-> pl.res, n |-> 0, out |-> b1, calls |-> <<"crc8">>]
        ELSE pack_trailer(IdtpMode_from(f.header.mode), b3, data_size,
                          data_size + trailer_size(f), c32, h)

\* IdtpFrame::pack_with.  The result carries the return value (res, n), the
\* caller's buffer as the call leaves it (out) and the primitives invoked, in
\* order (calls).
pack_with(f, buffer, c8, c32, h) ==
    LET tsize == trailer_size(f)
        expected_size == size(f)
        header_size == IDTP_HEADER_SIZE
        b1 == copy_from_slice(buffer, 0, as_bytes(f.header))
        crc8 == calc_crc8(c8, Prefix(b1, 19))
        b2 == copy_from_slice(b1, 19, <<crc8.val>>)
        psize == payload_size(f)
        pl == payload_raw(f)
        b3 == copy_from_slice(b2, header_size, pl.val)
        data_size == header_size + psize
        mode == IdtpMode_from(f.header.mode)
        frame_size == data_size + tsize
    IN  IF Len(buffer) < expected_size
        THEN [res |-> BufferUnderflow, n |-> 0, out |-> buffer, calls |-> <<>>]
        ELSE IF crc8.res # Ok
        THEN [res |-> crc8.res, n |-> 0, out |-> b1, calls |-> <<"crc8">>]
        ELSE IF pl.res # Ok
        THEN [res |-> pl.res, n |-> 0, out |-> b2, calls |-> <<"crc8">>]
        ELSE pack_trailer(mode, b3, data_size, frame_size, c32, h)

\* IdtpFrame::pack (software backend)
pack(f, buffer, key) == pack_with(f, buffer, SwCrc, SwCrc, SwHmac(key))

\* The trailer match with the Secure arm reporting a CRC failure.
check_trailer_secure_crc(mode, buffer, data_size, frame_size, c32, h) ==
    LET data == Prefix(buffer, data_size)
        computed_crc32 == calc_crc32(c32, data)
        computed_hmac == calc_hmac(h, data)
        received == SubSeq(buffer, data_size + 1, frame_size)
    IN  CASE mode = "Lite" -> [res |-> Ok, calls |-> <<"crc8">>]
          [] mode = "Safety" ->
               [res |-> IF computed_crc32.res # Ok THEN computed_crc32.res
                        ELSE IF computed_crc32.val # u32_from_le_bytes(received)
                        THEN InvalidCrc ELSE Ok,
                calls |-> <<"crc8", "crc32">>]
          [] mode = "Secure" ->
               [res |-> IF computed_hmac.res # Ok THEN computed_hmac.res
                        ELSE IF computed_hmac.val # received
                        THEN InvalidCrc ELSE Ok,
                calls |-> <<"crc8", "hmac">>]
          [] OTHER -> [res |-> InvalidCrc, calls |-> <<"crc8">>]

\* The trailer match with the Safety CRC-32 computed over the header alone.
check_trailer_header_only(mode, buffer, data_size, frame_size, c32, h) ==
    LET data == Prefix(buffer, data_size)
        computed_crc32 == calc_crc32(c32, Prefix(buffer, IDTP_HEADER_SIZE))
        computed_hmac == calc_hmac(h, data)
        received == SubSeq(buffer, data_size + 1, frame_size)
    IN  CASE mode = "Lite" -> [res |-> Ok, calls |-> <<"crc8">>]
          [] mode = "Safety" ->
               [res |-> IF computed_crc32.res # Ok THEN computed_crc32.res
                        ELSE IF computed_crc32.val # u32_from_le_bytes(received)
                        THEN InvalidCrc ELSE Ok,
                calls |-> <<"crc8", "crc32">>]
          [] mode = "Secure" ->
               [res |-> IF computed_hmac.res # Ok THEN computed_hmac.res
                        ELSE IF computed_hmac.val # received
                        THEN InvalidHMac ELSE Ok,
                calls |-> <<"crc8", "hmac">>]
          [] OTHER -> [res |-> InvalidCrc, calls |-> <<"crc8">>]

\* IdtpFrame::validate_with, the trailer match.
check_trailer(mode, buffer, data_size, frame_size, c32, h) ==
    LET data == Prefix(buffer, data_size)
        computed_crc32 == calc_crc32(c32, data)
        computed_hmac == calc_hmac(h, data)
        received == SubSeq(buffer, data_size + 1, frame_size)
    IN  CASE mode = "Lite" -> [res |-> Ok, calls |-> <<"crc8">>]
          [] mode = "Safety" ->
               [res |-> IF computed_crc32.res # Ok THEN computed_crc32.res
                        ELSE IF computed_crc32.val # u32_from_le_bytes(received)
                        THEN InvalidCrc ELSE Ok,
                calls |-> <<"crc8", "crc32">>]
          [] mode = "Secure" ->
               [res |-> IF computed_hmac.res # Ok THEN computed_hmac.res
                        ELSE IF computed_hmac.val # received
                        THEN InvalidHMac ELSE Ok,
                calls |-> <<"crc8", "hmac">>]
          [] OTHER -> [res |-> InvalidCrc, calls |-> <<"crc8">>]

\* validate_with that checks the declared length before the header CRC-8.
validate_with_length_first(buffer, c8, c32, h) ==
    LET header_size == IDTP_HEADER_SIZE
        computed_crc8 == calc_crc8(c8, Prefix(buffer, 19))
        header == read_from_prefix(buffer)
        mode == IdtpMode_from(header.mode)
        data_size == header_size + header.payload_size
        frame_size == data_size + mode_trailer(mode)
    IN  IF Len(buffer) < header_size
        THEN [res |-> BufferUnderflow, calls |-> <<>>]
        ELSE IF Len(buffer) < frame_size
        THEN [res |-> BufferUnderflow, calls |-> <<>>]
        ELSE IF computed_crc8.res # Ok
        THEN [res |-> computed_crc8.res, calls |-> <<"crc8">>]
        ELSE IF buffer[20] # computed_crc8.val
        THEN [res |-> InvalidCrc, calls |-> <<"crc8">>]
        ELSE check_trailer(mode, buffer, data_size, frame_size, c32, h)

\* IdtpFrame::validate_with
validate_with(buffer, c8, c32, h) ==
    LET header_size == IDTP_HEADER_SIZE
        computed_crc8 == calc_crc8(c8, Prefix(buffer, 19))
        header == read_from_prefix(buffer)
        psize == header.payload_size
        mode == IdtpMode_from(header.mode)
        tsize == mode_trailer(mode)
        data_size == header_size + psize
        expected_size == data_size + tsize
        frame_size == data_size + tsize
    IN  IF Len(buffer) < header_size
        THEN [res |-> BufferUnderflow, calls |-> <<>>]
        ELSE IF computed_crc8.res # Ok
        THEN [res |-> computed_crc8.res, calls |-> <<"crc8">>]
        ELSE IF buffer[20] # computed_crc8.val
        THEN [res |-> InvalidCrc, calls |-> <<"crc8">>]
        ELSE IF Len(buffer) < expected_size
        THEN [res |-> BufferUnderflow, calls |-> <<"crc8">>]
        ELSE check_trailer(mode, buffer, data_size, frame_size, c32, h)

\* IdtpFrame::validate (software backend)
validate(buffer, key) == validate_with(buffer, SwCrc, SwCrc, SwHmac(key))

\* try_from that expects a 32-byte trailer whatever the mode.
try_from_expects_tag(buffer) ==
    LET header_size == IDTP_HEADER_SIZE
        header == read_from_prefix(buffer)
        idtp == set_header(IdtpFrame_new, header)
        psize == header.payload_size
        expected_size == header_size + psize + 32
        pl == SubSeq(buffer, header_size + 1, header_size + psize)
        r == set_payload_raw(idtp, pl, header.payload_type)
    IN  IF Len(buffer) < header_size
        THEN [res |-> BufferUnderflow, frame |-> IdtpFrame_new]
        ELSE IF Len(buffer) < expected_size
        THEN [res |-> BufferUnderflow, frame |-> IdtpFrame_new]
        ELSE IF r.res # Ok THEN [res |-> r.res, frame |-> IdtpFrame_new]
        ELSE [res |-> Ok, frame |-> r.frame]

\* try_from that returns the frame even when the payload did not fit.
try_from_ignores_overflow(buffer) ==
    LET header_size == IDTP_HEADER_SIZE
        header == read_from_prefix(buffer)
        idtp == set_header(IdtpFrame_new, header)
        psize == header.payload_size
        expected_size == header_size + psize + trailer_size(idtp)
        pl == SubSeq(buffer, header_size + 1, header_size + psize)
        r == set_payload_raw(idtp, pl, header.payload_type)
    IN  IF Len(buffer) < header_size
        THEN [res |-> BufferUnderflow, frame |-> IdtpFrame_new]
        ELSE IF Len(buffer) < expected_size
        THEN [res |-> BufferUnderflow, frame |-> IdtpFrame_new]
        ELSE [res |-> Ok, frame |-> r.frame]

\* try_from with the payload slice taken one byte early.
try_from_early(buffer) ==
    LET header_size == IDTP_HEADER_SIZE
        header == read_from_prefix(buffer)
        idtp == set_header(IdtpFrame_new, header)
        psize == header.payload_size
        expected_size == header_size + psize + trailer_size(idtp)
        pl == SubSeq(buffer, header_size, header_size + psize - 1)
        r == set_payload_raw(idtp, pl, header.payload_type)
    IN  IF Len(buffer) < header_size
        THEN [res |-> BufferUnderflow, frame |-> IdtpFrame_new]
        ELSE IF Len(buffer) < expected_size
        THEN [res |-> BufferUnderflow, frame |-> IdtpFrame_new]
        ELSE IF r.res # Ok THEN [res |-> r.res, frame |-> IdtpFrame_new]
        ELSE [res |-> Ok, frame |-> r.frame]

\* impl TryFrom<&[u8]> for IdtpFrame
try_from(buffer) ==
    LET header_size == IDTP_HEADER_SIZE
        header == read_from_prefix(buffer)
        idtp == set_header(IdtpFrame_new, header)
        psize == header.payload_size
        expected_size == header_size + psize + trailer_size(idtp)
        pl == SubSeq(buffer, header_size + 1, header_size + psize)
        r == set_payload_raw(idtp, pl, header.payload_type)
    IN  IF Len(buffer) < header_size
        THEN [res |-> BufferUnderflow, frame |-> IdtpFrame_new]
        ELSE IF Len(buffer) < expected_size
        THEN [res |-> BufferUnderflow, frame |-> IdtpFrame_new]
        ELSE IF r.res # Ok THEN [res |-> r.res, frame |-> IdtpFrame_new]
        ELSE [res |-> Ok, frame |-> r.frame]

\* ------------------------------------------------------------------ inputs
ModeBytes == {0, 1, 2, 3, 255}

\* A header as a caller fills it in: IdtpHeader::new() with every field set
\* (multi-byte fields have distinct bytes; crc is set to show it is ignored).
Hdr(mode, psize) ==
    [IdtpHeader_new EXCEPT !.timestamp = u32(188, 24910),
                           !.sequence = u32(258, 772),
                           !.device_id = 17067, !.payload_size = psize,
                           !.mode = mode, !.payload_type = 9, !.crc = 90]

HeaderInputs ==
    {IdtpHeader_new} \cup {Hdr(m, 0) : m \in ModeBytes}
    \cup {Hdr(1, 5), Hdr(2, IDTP_PAYLOAD_MAX_SIZE),
          Hdr(0, IDTP_PAYLOAD_MAX_SIZE + 1), Hdr(1, U16 - 1)}

RawLens ==
    {0, 5, IDTP_PAYLOAD_MAX_SIZE, IDTP_PAYLOAD_MAX_SIZE + 1,
     IDTP_FRAME_MAX_SIZE, IDTP_FRAME_MAX_SIZE + 1}

RawBytes(len, fill) == [i \in 1..len |-> (41 * fill + 13 * len + 7 * i) % U8]

RawType(fill) == 128 + fill

TypedKinds == {"TestPayload", "Imu6", "HugePayload"}

TypedValue(T, fill) ==
    [i \in 1..PayloadKinds[T].fields |->
        IF PayloadKinds[T].width = 4
        THEN u32((15616 + 97 * fill + i) % U16, (4099 * fill + 263 * i) % U16)
        ELSE (29 * fill + 3 * i) % U8]

Keys == {NoKey} \cup {SomeKey(k) : k \in 1..MaxKey}

\* pack / validate with the software backend and a key.
Sw(key) == [c8 |-> SwCrc, c32 |-> SwCrc, h |-> SwHmac(key)]
\* The closures of test_pack_with_custom_closures.
Custom ==
    [c8 |-> ConstPrim(222), c32 |-> ConstPrim(u32(57005, 48879)),
     h |-> ConstPrim(0)]
\* An accelerator whose CRC-8 unit reports an error.
FailCrc8 ==
    [c8 |-> FailPrim(BufferOverflow), c32 |-> SwCrc, h |-> SwHmac(NoKey)]
\* An accelerator whose trailer units report errors.
FailTrailer ==
    [c8 |-> SwCrc, c32 |-> FailPrim(ParseError), h |-> FailPrim(InvalidHMac)]

PrimBundles == {Sw(k) : k \in Keys} \cup {Custom, FailCrc8, FailTrailer}

\* The caller's output buffer before pack writes to it.
FreshBuffer(len) == [i \in 1..len |-> 238]

\* A zeroed output buffer ([0u8; N]).
ZeroBuffer(len) == [i \in 1..len |-> 0]

\* Buffer lengths tried by the caller: one byte short, exact, with slack.
BufLens(f) == {size(f) - 1, size(f), size(f) + MaxSlack}

\* Bits the transport may flip in a byte.
FlipBits == {0, MaxBit}

\* A single-bit change of byte pos (1-based) of b.
FlipBit(b, pos, bit) ==
    [b EXCEPT ![pos] = IF (b[pos] \div (2 ^ bit)) % 2 = 1
                       THEN b[pos] - 2 ^ bit ELSE b[pos] + 2 ^ bit]

\* ------------------------------------------------------------------- state
VARIABLES
    frame,   \* the IdtpFrame in hand (the builder's, or the one decoded)
    nsets,   \* builder calls (set_header / set_payload*) made so far
    lastH,   \* the header given to the most recent set_header
    lastP,   \* the payload given to the most recent successful set_payload*
    buffer,  \* the byte buffer pack wrote / the receiver reads
    phase,   \* "build", "packed", "recv", "done"
    op,      \* the last operation
    arg,     \* its inputs
    res,     \* its result
    prev,    \* the frame before the last operation
    sent,    \* the last pack: its primitives and result
    faults   \* what the link did to the bytes

vars == <<frame, nsets, lastH, lastP, buffer, phase, op, arg, res, prev, sent,
          faults>>

NoSent == [res |-> "none", n |-> 0, prims |-> Sw(NoKey), calls |-> <<>>]

Init ==
    /\ frame = IdtpFrame_new
    /\ nsets = 0
    /\ lastH = [set |-> FALSE, header |-> IdtpHeader_default]
    /\ lastP = [set |-> FALSE, kind |-> "none", bytes |-> <<>>,
                payload_type |-> 0, latest |-> FALSE]
    /\ buffer = <<>>
    /\ phase = "build"
    /\ op = "new"
    /\ arg = <<>>
    /\ res = [res |-> Ok]
    /\ prev = IdtpFrame_new
    /\ sent = NoSent
    /\ faults = <<>>

SetHeader(h) ==
    /\ phase = "build" /\ nsets < MaxSets
    /\ frame' = set_header(frame, h)
    /\ nsets' = nsets + 1
    /\ lastH' = [set |-> TRUE, header |-> h]
    /\ lastP' = [lastP EXCEPT !.latest = FALSE]
    /\ op' = "set_header"
    /\ arg' = [header |-> h]
    /\ res' = [res |-> Ok]
    /\ prev' = frame
    /\ UNCHANGED <<buffer, phase, sent, faults>>

SetPayloadRaw(len, fill) ==
    /\ phase = "build" /\ nsets < MaxSets
    /\ LET r == set_payload_raw(frame, RawBytes(len, fill), RawType(fill))
       IN  /\ frame' = r.frame
           /\ res' = [res |-> r.res]
           /\ lastP' = IF r.res = Ok
                       THEN [set |-> TRUE, kind |-> "raw",
                             bytes |-> RawBytes(len, fill),
                             payload_type |-> RawType(fill), latest |-> TRUE]
                       ELSE lastP
    /\ nsets' = nsets + 1
    /\ op' = "set_payload_raw"
    /\ arg' = [bytes |-> RawBytes(len, fill), payload_type |-> RawType(fill)]
    /\ prev' = frame
    /\ UNCHANGED <<lastH, buffer, phase, sent, faults>>

SetPayload(T, fill) ==
    /\ phase = "build" /\ nsets < MaxSets
    /\ LET r == set_payload(frame, T, TypedValue(T, fill))
       IN  /\ frame' = r.frame
           /\ res' = [res |-> r.res]
           /\ lastP' = IF r.res = Ok
                       THEN [set |-> TRUE, kind |-> T,
                             bytes |-> to_bytes(T, TypedValue(T, fill)),
                             payload_type |-> payload_type(T), latest |-> TRUE]
                       ELSE lastP
    /\ nsets' = nsets + 1
    /\ op' = "set_payload"
    /\ arg' = [T |-> T, payload |-> TypedValue(T, fill)]
    /\ prev' = frame
    /\ UNCHANGED <<lastH, buffer, phase, sent, faults>>

PackWith(len, prims) ==
    /\ phase = "build" /\ len >= 0
    /\ LET r == pack_with(frame, FreshBuffer(len), prims.c8, prims.c32, prims.h)
       IN  /\ buffer' = r.out
           /\ res' = [res |-> r.res, n |-> r.n]
           /\ sent' = [res |-> r.res, n |-> r.n, prims |-> prims,
                       calls |-> r.calls]
    /\ phase' = "packed"
    /\ op' = "pack_with"
    /\ arg' = [len |-> len, prims |-> prims]
    /\ prev' = frame
    /\ UNCHANGED <<frame, nsets, lastH, lastP, faults>>

\* Offsets (1-based) the transport may hit: preamble, payload_size, mode,
\* crc, first payload byte, last byte of the frame.
FlipPositions == {1, 15, 18, 20, 21, sent.n}

\* The transport changes one bit of a frame that was packed and sent.
Flip(pos, bit) ==
    /\ phase = "packed" /\ sent.res = Ok /\ faults = <<>>
    /\ pos <= Len(buffer)
    /\ buffer' = FlipBit(buffer, pos, bit)
    /\ faults' = <<[kind |-> "flip", pos |-> pos, bit |-> bit]>>
    /\ op' = "flip"
    /\ arg' = [pos |-> pos, bit |-> bit]
    /\ res' = [res |-> Ok]
    /\ prev' = frame
    /\ UNCHANGED <<frame, nsets, lastH, lastP, phase, sent>>

\* A sender on the link rewrites the declared payload_size of a frame to one
\* byte more and recomputes the (unkeyed) header CRC-8.
Forge ==
    /\ phase = "packed" /\ sent.res = Ok /\ faults = <<>>
    /\ LET psize == (read_from_prefix(buffer).payload_size + 1) % U16
           b1 == copy_from_slice(buffer, 14, u16_to_le_bytes(psize))
       IN  buffer' = copy_from_slice(b1, 19, <<sw_crc8(Prefix(b1, 19)).val>>)
    /\ faults' = <<[kind |-> "forge", pos |-> 15, bit |-> 0]>>
    /\ op' = "forge"
    /\ arg' = <<>>
    /\ res' = [res |-> Ok]
    /\ prev' = frame
    /\ UNCHANGED <<frame, nsets, lastH, lastP, phase, sent>>

\* The transport delivers only the first k bytes.
Truncate(k) ==
    /\ phase = "packed" /\ sent.res = Ok /\ faults = <<>>
    /\ k >= 0 /\ k < Len(buffer)
    /\ buffer' = Prefix(buffer, k)
    /\ faults' = <<[kind |-> "truncate", pos |-> k, bit |-> 0]>>
    /\ op' = "truncate"
    /\ arg' = [k |-> k]
    /\ res' = [res |-> Ok]
    /\ prev' = frame
    /\ UNCHANGED <<frame, nsets, lastH, lastP, phase, sent>>

\* The receiver validates the bytes it got.
ValidateWith(prims) ==
    /\ phase = "packed" /\ sent.res = Ok
    /\ LET r == validate_with(buffer, prims.c8, prims.c32, prims.h)
       IN  res' = [res |-> r.res, calls |-> r.calls]
    /\ phase' = "recv"
    /\ op' = "validate_with"
    /\ arg' = [prims |-> prims]
    /\ prev' = frame
    /\ UNCHANGED <<frame, nsets, lastH, lastP, buffer, sent, faults>>

\* The receiver decodes the bytes it got.
TryFrom ==
    /\ phase = "packed" /\ sent.res = Ok
    /\ LET r == try_from(buffer)
       IN  res' = [res |-> r.res, frame |-> r.frame]
    /\ phase' = "recv"
    /\ op' = "try_from"
    /\ arg' = <<>>
    /\ prev' = frame
    /\ UNCHANGED <<frame, nsets, lastH, lastP, buffer, sent, faults>>

\* The receiver decodes the bytes it has just validated successfully.
DecodeValidated ==
    /\ phase = "recv" /\ op = "validate_with" /\ res.res = Ok
    /\ LET r == try_from(buffer)
       IN  res' = [res |-> r.res, frame |-> r.frame]
    /\ phase' = "done"
    /\ op' = "decode_validated"
    /\ UNCHANGED <<frame, nsets, lastH, lastP, buffer, arg, prev, sent, faults>>

\* The sender packs the same frame a second time, into another buffer.
PackAgain(len) ==
    /\ phase = "packed" /\ op = "pack_with" /\ sent.res = Ok /\ len >= 0
    /\ LET r == pack_with(frame, ZeroBuffer(len), sent.prims.c8,
                          sent.prims.c32, sent.prims.h)
       IN  res' = [res |-> r.res, n |-> r.n, out |-> r.out]
    /\ phase' = "done"
    /\ op' = "pack_again"
    /\ arg' = [len |-> len, prims |-> sent.prims]
    /\ prev' = frame
    /\ UNCHANGED <<frame, nsets, lastH, lastP, buffer, sent, faults>>

\* The receiver packs the frame it decoded (a relay).
Repack ==
    /\ phase = "recv" /\ op = "try_from" /\ res.res = Ok
    /\ \E len \in BufLens(res.frame) :
          /\ len >= 0
          /\ LET r == pack_with(res.frame, ZeroBuffer(len), sent.prims.c8,
                                sent.prims.c32, sent.prims.h)
             IN  res' = [res |-> r.res, n |-> r.n, out |-> r.out]
          /\ arg' = [len |-> len, prims |-> sent.prims]
    /\ frame' = res.frame
    /\ prev' = res.frame
    /\ phase' = "done"
    /\ op' = "repack"
    /\ UNCHANGED <<nsets, lastH, lastP, buffer, sent, faults>>

\* The caller reads the stored payload bytes.
PayloadRaw ==
    /\ phase = "build"
    /\ res' = payload_raw(frame)
    /\ phase' = "done"
    /\ op' = "payload_raw"
    /\ arg' = <<>>
    /\ prev' = frame
    /\ UNCHANGED <<frame, nsets, lastH, lastP, buffer, sent, faults>>

\* The caller reads the stored payload as a T.
Payload(T) ==
    /\ phase = "build"
    /\ res' = payload(frame, T)
    /\ phase' = "done"
    /\ op' = "payload"
    /\ arg' = [T |-> T]
    /\ prev' = frame
    /\ UNCHANGED <<frame, nsets, lastH, lastP, buffer, sent, faults>>

Next ==
    \/ \E h \in HeaderInputs : SetHeader(h)
    \/ \E len \in RawLens, fill \in 1..MaxFill : SetPayloadRaw(len, fill)
    \/ \E T \in TypedKinds, fill \in 1..MaxFill : SetPayload(T, fill)
    \/ \E len \in BufLens(frame), prims \in PrimBundles : PackWith(len, prims)
    \/ \E pos \in FlipPositions, bit \in FlipBits : Flip(pos, bit)
    \/ \E k \in {19, sent.n - 1} : Truncate(k)
    \/ Forge
    \/ \E prims \in PrimBundles : ValidateWith(prims)
    \/ TryFrom
    \/ DecodeValidated
    \/ \E len \in BufLens(frame) : PackAgain(len)
    \/ Repack
    \/ PayloadRaw
    \/ \E T \in TypedKinds : Payload(T)

Spec == Init /\ [][Next]_vars

\* ------------------------------------------------------------------ claims
\* What the header fields say the frame occupies on the wire.
FrameLen(h) ==
    20 + h.payload_size + (IF h.mode = 1 THEN 4 ELSE IF h.mode = 2 THEN 32 ELSE 0)

\* The frame was built by set_header(h) and then set_payload_raw(p, t).
HeaderThenRaw ==
    lastH.set /\ lastP.set /\ lastP.latest /\ lastP.kind = "raw"

\* The bytes the receiver sees are the bytes pack wrote.
Pristine == sent.res = Ok /\ faults = <<>>

\* C1: round trip.  After set_header(h) with mode Lite, Safety or Secure and
\* set_payload_raw(p, t), a successful pack followed by try_from on the buffer
\* (of exactly size() bytes or longer) returns a frame whose header is h with
\* payload_size = len(p) and payload_type = t (crc aside) and whose
\* payload_raw() is p.
C1_RoundTrip ==
    (op = "try_from" /\ Pristine /\ HeaderThenRaw
     /\ lastH.header.mode \in {0, 1, 2})
    => /\ res.res = Ok
       /\ res.frame.header =
              [lastH.header EXCEPT !.payload_size = Len(lastP.bytes),
                                   !.payload_type = lastP.payload_type,
                                   !.crc = res.frame.header.crc]
       /\ payload_raw(res.frame) = [res |-> Ok, val |-> lastP.bytes]

C1_Witness ==
    /\ op = "try_from" /\ Pristine /\ HeaderThenRaw
    /\ lastH.header.mode = 2
    /\ Len(lastP.bytes) = 972
    /\ Len(buffer) > sent.n
    /\ res.res = Ok

\* C2: validate accepts anything pack produces.  Whenever pack_with returned
\* Ok(n), validate_with on the bytes pack wrote, with the same primitives and
\* key, returns Ok.
C2_ValidateAcceptsPack ==
    (op = "validate_with" /\ Pristine /\ arg.prims = sent.prims
     /\ Len(buffer) = sent.n)
    => res.res = Ok

\* One bit of the packed frame was changed on the way to the receiver, who
\* validates with the primitives and key the sender packed with.
FlippedInFrame ==
    /\ op = "validate_with" /\ sent.res = Ok
    /\ Len(faults) = 1 /\ faults[1].kind = "flip" /\ faults[1].pos <= sent.n
    /\ arg.prims = sent.prims
    /\ \E k \in Keys : sent.prims = Sw(k)

\* C3 as claimed: a single-bit change anywhere in bytes[0..size) of a packed
\* frame of any mode makes validate (same detecting primitives and key) return
\* InvalidCrc or InvalidHMac.
C3_AnyModeDetects == FlippedInFrame => res.res \in {InvalidCrc, InvalidHMac}

\* C3 amended: the change is detected (InvalidCrc or InvalidHMac) when it lies
\* in the header bytes[0..20) or the frame is not a Lite frame; a changed
\* payload or trailer byte of a Safety frame gives InvalidCrc; a changed
\* payload byte of a Lite frame is not covered by any check and validate
\* returns Ok.
C3_DetectsOutsideLitePayload ==
    FlippedInFrame
    => /\ (faults[1].pos <= 20 \/ frame.header.mode # 0)
            => res.res \in {InvalidCrc, InvalidHMac}
       /\ (faults[1].pos > 20 /\ frame.header.mode = 1) => res.res = InvalidCrc
       /\ (faults[1].pos > 20 /\ frame.header.mode = 0) => res.res = Ok

C3_Witness ==
    /\ FlippedInFrame
    /\ faults[1].pos = 21 /\ faults[1].bit = 0
    /\ frame.header.mode = 1 /\ frame.header.payload_size = 5
    /\ res.res = InvalidCrc

\* The primitives a pack of this frame invokes all return Ok.
InvokedPrimsOk(h, prims) ==
    /\ prims.c8.kind # "fail"
    /\ h.mode = 1 => prims.c32.kind # "fail"
    /\ h.mode = 2 => /\ prims.h.kind # "fail"
                     /\ prims.h.kind = "sw" => prims.h.key.some

\* C4 as claimed: pack into fewer than size() bytes returns BufferUnderflow,
\* and into size() bytes or more it succeeds, for every frame state (stated
\* for pack, the software backend, with or without a key).
C4_LongEnoughSucceeds ==
    (op = "pack_with" /\ \E k \in Keys : arg.prims = Sw(k))
    => /\ arg.len < FrameLen(frame.header) => res.res = BufferUnderflow
       /\ arg.len >= FrameLen(frame.header) => res.res = Ok

\* C4 amended: pack into fewer than size() bytes returns BufferUnderflow; into
\* size() bytes or more it succeeds exactly when header.payload_size <= 972
\* and every primitive it invokes returns Ok (otherwise it returns the
\* primitive's error, or ParseError for payload_size > 972).
C4_BufferRule ==
    op = "pack_with"
    => /\ arg.len < FrameLen(frame.header) => res.res = BufferUnderflow
       /\ arg.len >= FrameLen(frame.header)
            => /\ res.res = Ok <=> /\ frame.header.payload_size <= 972
                                   /\ InvokedPrimsOk(frame.header, arg.prims)
               /\ res.res = Ok => res.n = FrameLen(frame.header)
               /\ (arg.prims.c8.kind # "fail"
                   /\ frame.header.payload_size > 972) => res.res = ParseError

C4_Witness ==
    /\ op = "pack_with"
    /\ arg.len = FrameLen(frame.header)
    /\ frame.header.mode = 2 /\ frame.header.payload_size = 972
    /\ res.res = Ok /\ res.n = 1024

\* C5: set_payload and set_payload_raw given more than 972 bytes return
\* BufferOverflow and leave header and payload bytes as they were.
C5_OversizeRejected ==
    /\ (op = "set_payload_raw" /\ Len(arg.bytes) > 972)
         => (res.res = BufferOverflow /\ frame = prev)
    /\ (op = "set_payload"
        /\ PayloadKinds[arg.T].fields * PayloadKinds[arg.T].width > 972)
         => (res.res = BufferOverflow /\ frame = prev)

C5_Witness ==
    /\ op = "set_payload_raw" /\ Len(arg.bytes) = 1024
    /\ res.res = BufferOverflow
    /\ prev.header.payload_size = 5 /\ prev.payload[1] # 0

\* The receiver's bytes hold a complete Secure frame whose header CRC-8 is
\* the software one.
CompleteSecureFrame ==
    /\ Len(buffer) >= 20
    /\ buffer[18] = 2
    /\ buffer[20] = sw_crc8(Prefix(buffer, 19)).val
    /\ Len(buffer) >= 20 + buffer[15] + 256 * buffer[16] + 32

\* C6: with the software backend and no key, a Secure-mode pack (into a buffer
\* that is long enough, payload_size <= 972) and a Secure-mode validate (of a
\* complete frame with a matching header CRC) return InvalidHMacKey.
C6_NoKey ==
    /\ (op = "pack_with" /\ arg.prims = Sw(NoKey) /\ frame.header.mode = 2
        /\ arg.len >= FrameLen(frame.header)
        /\ frame.header.payload_size <= 972)
         => res.res = InvalidHMacKey
    /\ (op = "validate_with" /\ arg.prims = Sw(NoKey) /\ CompleteSecureFrame)
         => res.res = InvalidHMacKey

C6_Witness ==
    /\ op = "validate_with" /\ arg.prims = Sw(NoKey) /\ CompleteSecureFrame
    /\ res.res = InvalidHMacKey

\* C7 as claimed: validate on input whose mode byte (offset 17) is outside
\* {0, 1, 2} returns InvalidCrc (stated for input with a complete header and
\* the software backend).
C7_UnknownModeInvalidCrc ==
    (op = "validate_with" /\ Len(buffer) >= 20 /\ buffer[18] \notin {0, 1, 2}
     /\ \E k \in Keys : arg.prims = Sw(k))
    => res.res = InvalidCrc

\* C8: a Secure frame packed with key k validates Ok with key k and validates
\* InvalidHMac with any other key.
C8_SecureKeys ==
    \A k1, k2 \in Keys :
        (op = "validate_with" /\ Pristine /\ frame.header.mode = 2
         /\ sent.prims = Sw(k1) /\ arg.prims = Sw(k2) /\ k2.some)
        => res.res = (IF k2 = k1 THEN Ok ELSE InvalidHMac)

C8_Witness ==
    /\ op = "validate_with" /\ Pristine /\ frame.header.mode = 2
    /\ sent.prims = Sw(SomeKey(1)) /\ arg.prims = Sw(SomeKey(2))
    /\ frame.header.payload_size = 5
    /\ res.res = InvalidHMac

\* The constructor defaults of section 4.2.
ClaimedDefaults ==
    [IdtpHeader_default EXCEPT !.preamble = u32(20564, 17481), !.version = 33,
                               !.mode = 1]

\* C9 as claimed: IdtpHeader::new() and the header of IdtpFrame::new() have
\* preamble 0x50544449, version 0x21, mode Safety (1), everything else zero.
C9_ConstructorDefaults ==
    op = "new" => (frame.header = ClaimedDefaults
                   /\ IdtpHeader_new = ClaimedDefaults)

\* C10: after a successful set_payload(&p) of kind T, header.payload_type is
\* T::TYPE_ID, header.payload_size is size_of T, payload::<T>() returns p, and
\* the other header fields are as before.
C10_TypedSetGet ==
    (op = "set_payload" /\ res.res = Ok)
    => /\ frame.header =
              [prev.header EXCEPT
                  !.payload_type = PayloadKinds[arg.T].TYPE_ID,
                  !.payload_size =
                      PayloadKinds[arg.T].fields * PayloadKinds[arg.T].width]
       /\ payload(frame, arg.T) = [res |-> Ok, val |-> arg.payload]

C10_Witness ==
    /\ op = "set_payload" /\ res.res = Ok /\ arg.T = "Imu6"
    /\ prev.header.device_id = 17067 /\ prev.header.payload_type = 9
    /\ frame.header.payload_size = 24 /\ frame.header.payload_type = 3

\* C11: wire layout of a successful pack_with, whatever the primitives.
\* out[0..19) are the first 19 header bytes; out[19] is what crc8 returns for
\* out[0..19) (the header's stored crc field is ignored); out[20..20+
\* payload_size) is the payload; in Safety mode the next 4 bytes are the
\* little-endian bytes of what crc32 returns for out[0..20+payload_size).
C11_WireLayout ==
    (op = "pack_with" /\ res.res = Ok)
    => LET h == frame.header
           ds == 20 + h.payload_size
       IN  /\ Len(buffer) = arg.len
           /\ SubSeq(buffer, 1, 4) = u32_to_le_bytes(h.preamble)
           /\ SubSeq(buffer, 5, 8) = u32_to_le_bytes(h.timestamp)
           /\ SubSeq(buffer, 9, 12) = u32_to_le_bytes(h.sequence)
           /\ SubSeq(buffer, 13, 14) = u16_to_le_bytes(h.device_id)
           /\ SubSeq(buffer, 15, 16) = u16_to_le_bytes(h.payload_size)
           /\ SubSeq(buffer, 17, 19) = <<h.version, h.mode, h.payload_type>>
           /\ buffer[20] = calc_crc8(arg.prims.c8, SubSeq(buffer, 1, 19)).val
           /\ SubSeq(buffer, 21, ds) = SubSeq(frame.payload, 1, h.payload_size)
           /\ h.mode = 1 =>
                 SubSeq(buffer, ds + 1, ds + 4) =
                   u32_to_le_bytes(
                     calc_crc32(arg.prims.c32, SubSeq(buffer, 1, ds)).val)

\* The closures of the custom-closure test on a Safety frame with a payload
\* and a stored crc field that differs from what crc8 returns.
C11_Witness ==
    /\ op = "pack_with" /\ res.res = Ok /\ arg.prims = Custom
    /\ frame.header.mode = 1 /\ frame.header.payload_size = 5
    /\ frame.header.crc = 90 /\ buffer[20] = 222
    /\ SubSeq(buffer, 26, 29) = <<239, 190, 173, 222>>

\* A pack of the frame in hand has just returned.
Packed == op \in {"pack_with", "pack_again", "repack"}

\* C12: frame size.  trailer_size() is 0 for Lite, 4 for Safety and 32 for
\* Secure and is the same for any two headers with the same mode byte;
\* size() = 20 + payload_size + trailer_size(); every successful pack returns
\* exactly size().
C12_FrameSize ==
    /\ frame.header.mode = 0 => trailer_size(frame) = 0
    /\ frame.header.mode = 1 => trailer_size(frame) = 4
    /\ frame.header.mode = 2 => trailer_size(frame) = 32
    /\ \A h \in HeaderInputs :
          h.mode = frame.header.mode
          => trailer_size(set_header(frame, h)) = trailer_size(frame)
    /\ size(frame) = 20 + frame.header.payload_size + trailer_size(frame)
    /\ (Packed /\ res.res = Ok) => res.n = size(frame)

C12_Witness ==
    /\ op = "pack_with" /\ res.res = Ok
    /\ frame.header.mode = 2 /\ frame.header.payload_size = 5
    /\ res.n = 57 /\ Len(buffer) = 58

\* C13: idempotence of pack.  A pack leaves the frame (header, crc field
\* included, and payload) as it was, and a second pack of the same frame with
\* the same primitives into another buffer that is long enough succeeds with
\* the same length and the same bytes in [0..size()).
C13_PackIdempotent ==
    /\ op \in {"pack_with", "pack_again"} => frame = prev
    /\ op = "pack_again"
       => /\ arg.len >= size(frame) => res.res = Ok
          /\ res.res = Ok
             => /\ res.n = sent.n
                /\ Prefix(res.out, size(frame)) = Prefix(buffer, size(frame))

\* Two packs of a Safety frame with a payload into buffers of different
\* length and different initial content.
C13_Witness ==
    /\ op = "pack_again" /\ res.res = Ok
    /\ frame.header.mode = 1 /\ frame.header.payload_size = 5
    /\ arg.len # Len(buffer) /\ res.out[arg.len] # buffer[Len(buffer)]

\* The header the received bytes declare.
Declared == read_from_prefix(buffer)

\* C14 as claimed: try_from on bytes whose first four bytes are not the
\* preamble 0x50544449 fails (stated for bytes of a frame that the sender
\* built with the right preamble and the link changed).
C14_PreambleChecked ==
    (op = "try_from" /\ Len(buffer) >= 20
     /\ lastH.set /\ lastH.header.preamble = IDTP_PREAMBLE
     /\ SubSeq(buffer, 1, 4) # u32_to_le_bytes(IDTP_PREAMBLE))
    => res.res # Ok

\* C15 as claimed: try_from on bytes whose mode byte is outside {0, 1, 2}
\* fails, so no decoded frame has an unknown mode (stated for bytes of a
\* frame packed with mode 0, 1 or 2 whose mode byte the link changed).
C15_UnknownModeRejected ==
    (op = "try_from" /\ Len(buffer) >= 20
     /\ frame.header.mode \in {0, 1, 2}
     /\ buffer[18] \notin {0, 1, 2})
    => res.res # Ok

\* C16 as claimed: try_from on bytes whose header declares payload_size > 972
\* returns ParseError (stated for buffers long enough to hold the declared
\* header, payload and trailer).
C16_OversizeDecodeParseError ==
    (op = "try_from" /\ Len(buffer) >= 20
     /\ Declared.payload_size > IDTP_PAYLOAD_MAX_SIZE
     /\ Len(buffer) >= FrameLen(Declared))
    => res.res = ParseError

\* C17 as claimed: pack / pack_with on a frame whose mode byte is outside
\* {0, 1, 2} returns ParseError and never returns Ok.
C17_UnknownModeNotPacked ==
    (op = "pack_with" /\ frame.header.mode \notin {0, 1, 2})
    => res.res # Ok

\* C18: frame length bound.  Whatever sequence of new, set_header (any
\* payload_size up to 65535), set_payload, set_payload_raw and decode built
\* the frame, every successful pack returns n with 20 <= n <= 1024.
C18_FrameLengthBound ==
    (Packed /\ res.res = Ok)
    => (IDTP_FRAME_MIN_SIZE <= res.n /\ res.n <= IDTP_FRAME_MAX_SIZE)

\* A decoded Secure frame with a full payload packs to exactly 1024 bytes.
C18_Witness ==
    /\ op = "repack" /\ res.res = Ok /\ res.n = IDTP_FRAME_MAX_SIZE
    /\ frame.header.payload_size = IDTP_PAYLOAD_MAX_SIZE

\* The last call was given lengths that do not fit: bytes longer than the
\* payload store, a buffer shorter than the frame, or a declared payload_size
\* larger than the payload store.
LengthViolation ==
    \/ op = "set_payload_raw" /\ Len(arg.bytes) > IDTP_PAYLOAD_MAX_SIZE
    \/ op = "set_payload" /\ size_of(arg.T) > IDTP_PAYLOAD_MAX_SIZE
    \/ op \in {"payload_raw", "payload"}
          /\ payload_size(frame) > IDTP_PAYLOAD_MAX_SIZE
    \/ Packed /\ arg.len < size(frame)
    \/ Packed /\ payload_size(frame) > IDTP_PAYLOAD_MAX_SIZE
    \/ op = "validate_with" /\ Len(buffer) < IDTP_HEADER_SIZE
    \/ op = "try_from"
          /\ \/ Len(buffer) < IDTP_HEADER_SIZE
             \/ Len(buffer) < FrameLen(Declared)
             \/ Declared.payload_size > IDTP_PAYLOAD_MAX_SIZE

\* C19 as claimed: every call returns a value (Ok or an IdtpError) and leaves
\* the caller's buffer at its length, and when the cause of a failure is a
\* length violation the error is BufferUnderflow or BufferOverflow, never
\* another kind.
C19_LengthErrorsOnly ==
    /\ res.res \in {Ok} \cup IdtpError
    /\ op = "pack_with" => Len(buffer) = arg.len
    /\ LengthViolation => res.res \in {BufferUnderflow, BufferOverflow}

\* C20 as claimed: in every frame state reached through new, set_header,
\* set_payload, set_payload_raw and decode, header.payload_size <= 972, so
\* payload_raw() succeeds.
C20_PayloadCap ==
    /\ payload_size(frame) <= IDTP_PAYLOAD_MAX_SIZE
    /\ payload_raw(frame).res = Ok
    /\ (op = "try_from" /\ res.res = Ok)
       => payload_size(res.frame) <= IDTP_PAYLOAD_MAX_SIZE

\* C20 amended: new, a successful set_payload / set_payload_raw and a
\* successful decode give header.payload_size <= 972, and a failed call
\* leaves the frame as it was; set_header stores the header it is given, so
\* a payload_size above 972 in a frame is the one the latest set_header
\* wrote; payload_raw() succeeds exactly when header.payload_size <= 972.
C20_CapExceptSetHeader ==
    /\ op = "new" => payload_size(frame) = 0
    /\ op = "set_header" => frame.header = arg.header
    /\ op \in {"set_payload", "set_payload_raw"}
       => IF res.res = Ok THEN payload_size(frame) <= IDTP_PAYLOAD_MAX_SIZE
          ELSE frame = prev
    /\ (op = "try_from" /\ res.res = Ok)
       => /\ payload_size(res.frame) <= IDTP_PAYLOAD_MAX_SIZE
          /\ payload_raw(res.frame).res = Ok
    /\ payload_size(frame) > IDTP_PAYLOAD_MAX_SIZE
       => /\ lastH.set /\ ~lastP.latest
          /\ lastH.header.payload_size = payload_size(frame)
    /\ op = "payload_raw"
       => (res.res = Ok <=> payload_size(frame) <= IDTP_PAYLOAD_MAX_SIZE)

\* payload_raw() fails on a frame whose header was set with payload_size 973
\* and in which no payload was stored.
C20_Witness ==
    /\ op = "payload_raw" /\ res.res # Ok
    /\ payload_size(frame) = IDTP_PAYLOAD_MAX_SIZE + 1
    /\ nsets = 2 /\ ~lastP.set

\* What the crc8 primitive of the last validate returns for bytes[0..19).
HeaderCrc == calc_crc8(arg.prims.c8, Prefix(buffer, 19))

\* The header CRC-8 of the received bytes matches.
HeaderCrcMatches == HeaderCrc.res = Ok /\ HeaderCrc.val = buffer[20]

\* C21: order of checks in validate_with.  (1) Fewer than 20 bytes give
\* BufferUnderflow.  (2) Otherwise a header CRC-8 mismatch gives InvalidCrc
\* whatever payload_size, mode and buffer length are.  (3) With a matching
\* header CRC, fewer than 20 + payload_size + trailer_size bytes give
\* BufferUnderflow.  (4) Only then is the trailer compared: a CRC-32 mismatch
\* gives InvalidCrc, an HMAC mismatch InvalidHMac, a match Ok.  Bytes after
\* the computed frame length do not influence the result.
C21_ValidateOrder ==
    op = "validate_with"
    => IF Len(buffer) < 20 THEN res.res = BufferUnderflow
       ELSE IF HeaderCrc.res # Ok THEN res.res = HeaderCrc.res
       ELSE IF ~HeaderCrcMatches THEN res.res = InvalidCrc
       ELSE IF Len(buffer) < FrameLen(Declared) THEN res.res = BufferUnderflow
       ELSE
         LET ds == 20 + Declared.payload_size
             c32 == calc_crc32(arg.prims.c32, Prefix(buffer, ds))
             mac == calc_hmac(arg.prims.h, Prefix(buffer, ds))
         IN  /\ (Declared.mode = 1 /\ c32.res = Ok)
                => res.res = IF u32_to_le_bytes(c32.val) =
                                  SubSeq(buffer, ds + 1, ds + 4)
                             THEN Ok ELSE InvalidCrc
             /\ (Declared.mode = 2 /\ mac.res = Ok)
                => res.res = IF mac.val = SubSeq(buffer, ds + 1, ds + 32)
                             THEN Ok ELSE InvalidHMac
             /\ Declared.mode = 0 => res.res = Ok
             /\ res.res =
                  validate_with(Prefix(buffer, FrameLen(Declared)),
                                arg.prims.c8, arg.prims.c32, arg.prims.h).res

\* A frame that is both short and carries a header CRC-8 that does not match
\* is reported as InvalidCrc.
C21_Witness ==
    /\ op = "validate_with" /\ Len(buffer) >= 20
    /\ ~HeaderCrcMatches /\ Len(buffer) < FrameLen(Declared)
    /\ res.res = InvalidCrc

\* C22: typed extraction ignores the type id.  payload::<T>() returns Ok, with
\* T read from the first size(T) stored bytes, exactly when size(T) <=
\* payload_size <= 972, whatever header.payload_type is; when payload_size <
\* size(T) it returns ParseError.
C22_TypedExtraction ==
    op = "payload"
    => /\ res.res = Ok
          <=> (size_of(arg.T) <= payload_size(frame)
               /\ payload_size(frame) <= IDTP_PAYLOAD_MAX_SIZE)
       /\ res.res = Ok
          => to_bytes(arg.T, res.val) = Prefix(frame.payload, size_of(arg.T))
       /\ payload_size(frame) < size_of(arg.T) => res.res = ParseError

\* payload::<TestPayload>() on a frame holding five raw bytes of another
\* type id.
C22_Witness ==
    /\ op = "payload" /\ arg.T = "TestPayload" /\ res.res = Ok
    /\ payload_size(frame) = 5
    /\ frame.header.payload_type # payload_type("TestPayload")

\* The receiver validated bytes that start with the preamble, using the
\* software backend, and then decoded them.
ValidatedThenDecoded ==
    /\ op = "decode_validated" /\ \E k \in Keys : arg.prims = Sw(k)
    /\ SubSeq(buffer, 1, 4) = u32_to_le_bytes(IDTP_PREAMBLE)

\* C23 as claimed: every buffer that validate_with accepts is accepted by
\* try_from, for every declared payload_size and every mode.
C23_ValidatedDecodes == ValidatedThenDecoded => res.res = Ok

\* C23 amended: a buffer that validate_with accepts is accepted by try_from
\* when its header declares payload_size <= 972; when it declares more,
\* validate can still accept it (validate puts no cap on payload_size) and
\* try_from fails.
C23_ValidatedDecodesUpToCap ==
    ValidatedThenDecoded
    => (res.res = Ok <=> Declared.payload_size <= IDTP_PAYLOAD_MAX_SIZE)

\* A validated Secure frame with a full payload decodes.
C23_Witness ==
    /\ ValidatedThenDecoded /\ res.res = Ok
    /\ Declared.mode = 2 /\ Declared.payload_size = IDTP_PAYLOAD_MAX_SIZE
    /\ payload_raw(res.frame).val = SubSeq(buffer, 21, 992)

\* The primitives the last pack_with / validate_with invoked, in order.
Calls == IF op = "pack_with" THEN sent.calls ELSE res.calls

\* The mode byte the last pack_with / validate_with worked with.
CallMode == IF op = "pack_with" THEN frame.header.mode ELSE buffer[18]

\* The error a primitive gives when invoked (Ok if it returns a value).
PrimError(p, isHmac) ==
    IF p.kind = "fail" THEN p.err
    ELSE IF isHmac /\ p.kind = "sw" /\ ~p.key.some THEN InvalidHMacKey
    ELSE Ok

\* C24: primitive invocation discipline of pack_with and validate_with.
\* Each primitive is invoked at most once; crc8 comes first and only after
\* the initial length check passed; crc32 is invoked only in Safety mode and
\* hmac only in Secure mode; an error a primitive returns is the result of
\* the call.
C24_PrimitiveDiscipline ==
    op \in {"pack_with", "validate_with"}
    => /\ Calls \in {<<>>, <<"crc8">>, <<"crc8", "crc32">>, <<"crc8", "hmac">>}
       /\ Calls # <<>>
          <=> IF op = "pack_with" THEN arg.len >= size(frame)
              ELSE Len(buffer) >= IDTP_HEADER_SIZE
       /\ Calls = <<"crc8", "crc32">> => CallMode = 1
       /\ Calls = <<"crc8", "hmac">> => CallMode = 2
       /\ (Calls # <<>> /\ PrimError(arg.prims.c8, FALSE) # Ok)
          => (res.res = PrimError(arg.prims.c8, FALSE) /\ Calls = <<"crc8">>)
       /\ (Calls = <<"crc8", "crc32">> /\ PrimError(arg.prims.c32, FALSE) # Ok)
          => res.res = PrimError(arg.prims.c32, FALSE)
       /\ (Calls = <<"crc8", "hmac">> /\ PrimError(arg.prims.h, TRUE) # Ok)
          => res.res = PrimError(arg.prims.h, TRUE)

\* A Secure frame is validated with an HMAC unit that reports an error, after
\* the CRC-8 unit was asked first.
C24_Witness ==
    /\ op = "validate_with" /\ arg.prims = FailTrailer
    /\ Calls = <<"crc8", "hmac">> /\ res.res = InvalidHMac

\* The bytes given to the most recent successful set_payload* call.
LatestPayload == IF lastP.set THEN lastP.bytes ELSE <<>>

\* The payload region of the bytes a successful pack wrote.
PackedPayload == SubSeq(buffer, 21, 20 + payload_size(frame))

====
